---- MODULE Spec2Model ----
(***************************************************************************)
(* Trie query recorder (db/src/trie/recorder.rs).                          *)
(*                                                                         *)
(* A Recorder owns a Vec<Record> and a min_depth threshold.  record()      *)
(* appends a Record when depth >= min_depth, drain() detaches the buffer.  *)
(* record() starts with debug_assert_eq!(data.crypt_hash(), *hash), which  *)
(* panics in a build with debug assertions and is compiled out otherwise.  *)
(***************************************************************************)
EXTENDS Integers, Sequences, FiniteSets

(* ---------------------------- bounds ----------------------------------- *)

\* Depths and thresholds range over 0..MaxDepth (u32 in the source; only
\* compared, never added, so no overflow is involved).
MaxDepth == 1

\* Number of record/drain calls observed on one recorder.
MaxOps == 4

\* Number of record/drain calls observed on two recorders together.
MaxOpsTwo == 3

\* Number of trie lookups made with one recorder.
MaxLookups == 2

(* ------------------------- value domains ------------------------------- *)

\* The node encodings used by the unit tests (node1, node2).
Nodes == { <<1, 2, 3, 4>>, <<4, 5, 6, 7, 8, 9, 10>> }

RECURSIVE ByteSum(_)
ByteSum(data) ==
    IF data = <<>> THEN 0 ELSE Head(data) + ByteSum(Tail(data))

\* Hashable::crypt_hash: the content digest of a byte string.  The digest
\* function is an external collaborator; it is a deterministic function of
\* the bytes, here a checksum into a one-byte digest space.
crypt_hash(data) == (31 * ByteSum(data) + Len(data)) % 256

\* The digests a caller can pass: those of the nodes above.
Hashes == { crypt_hash(n) : n \in Nodes }

Depths == 0 .. MaxDepth

(* ----------------------------- state ----------------------------------- *)

VARIABLES
    recorder,          \* the Recorder under observation: [nodes, min_depth]
    other,             \* a second Recorder instance
    debug_assertions,  \* cfg!(debug_assertions) of the build
    panicked,          \* a debug assertion has failed and the caller unwound
    trace,             \* calls made on `recorder`, with what they returned
    trace2,            \* calls made on `other`, with what they returned
    node_buf,          \* the caller's node buffer, reused from step to step
    query              \* the trie lookup in progress, if any

vars ==
    <<recorder, other, debug_assertions, panicked, trace, trace2, node_buf, query>>

\* No trie lookup is in progress.
NoQuery == [key |-> <<>>, next |-> 0, depth |-> 0, visiting |-> FALSE]

(* ------------------------- the source's code --------------------------- *)

\* struct Record { depth, data, hash }
Record(depth, data, hash) == [depth |-> depth, data |-> data, hash |-> hash]

\* Recorder::with_depth
with_depth(depth) == [nodes |-> <<>>, min_depth |-> depth]

\* Recorder::new with a threshold of 1.
new_depth_one == with_depth(1)

\* Recorder::new
new == with_depth(0)

\* Default for Recorder
default == new

\* assert_eq!(a, b): checked in every build.
assert_eq(a, b) == a = b

\* The assertion compiled out of every build.
no_assert(a, b) == TRUE

\* debug_assert_eq!(a, b): TRUE when execution continues past it.
debug_assert_eq(a, b) == debug_assertions => (a = b)

\* Recorder::record with the new Record put in front of the buffer.
record_front(self, hash, data, depth) ==
    IF ~debug_assert_eq(crypt_hash(data), hash)
    THEN [self |-> self, panic |-> TRUE]
    ELSE IF depth >= self.min_depth
         THEN [self  |-> [self EXCEPT !.nodes = <<Record(depth, data, hash)>> \o @],
               panic |-> FALSE]
         ELSE [self |-> self, panic |-> FALSE]

\* Recorder::record with a strict depth test.
record_strict(self, hash, data, depth) ==
    IF ~debug_assert_eq(crypt_hash(data), hash)
    THEN [self |-> self, panic |-> TRUE]
    ELSE IF depth > self.min_depth
         THEN [self  |-> [self EXCEPT !.nodes = Append(@, Record(depth, data, hash))],
               panic |-> FALSE]
         ELSE [self |-> self, panic |-> FALSE]

\* Recorder::record skipping a node that is already in the buffer.
record_dedup(self, hash, data, depth) ==
    IF ~debug_assert_eq(crypt_hash(data), hash)
    THEN [self |-> self, panic |-> TRUE]
    ELSE IF depth >= self.min_depth
              /\ \A i \in 1 .. Len(self.nodes) : self.nodes[i] # Record(depth, data, hash)
         THEN [self  |-> [self EXCEPT !.nodes = Append(@, Record(depth, data, hash))],
               panic |-> FALSE]
         ELSE [self |-> self, panic |-> FALSE]

\* Recorder::record storing the recomputed digest instead of the given one.
record_rehash(self, hash, data, depth) ==
    IF ~debug_assert_eq(crypt_hash(data), hash)
    THEN [self |-> self, panic |-> TRUE]
    ELSE IF depth >= self.min_depth
         THEN [self  |-> [self EXCEPT !.nodes =
                              Append(@, Record(depth, data, crypt_hash(data)))],
               panic |-> FALSE]
         ELSE [self |-> self, panic |-> FALSE]

\* Recorder::record discarding what is held when a node at depth 0 (the
\* root of a new query) arrives.
record_new_query(self, hash, data, depth) ==
    IF ~debug_assert_eq(crypt_hash(data), hash)
    THEN [self |-> self, panic |-> TRUE]
    ELSE IF depth >= self.min_depth
         THEN [self  |-> [self EXCEPT !.nodes =
                              Append(IF depth = 0 THEN <<>> ELSE @,
                                     Record(depth, data, hash))],
               panic |-> FALSE]
         ELSE [self |-> self, panic |-> FALSE]

\* Recorder::record without the depth test.
record_unfiltered(self, hash, data, depth) ==
    IF ~debug_assert_eq(crypt_hash(data), hash)
    THEN [self |-> self, panic |-> TRUE]
    ELSE [self  |-> [self EXCEPT !.nodes = Append(@, Record(depth, data, hash))],
          panic |-> FALSE]

\* Recorder::record assigning the buffer instead of pushing onto it.
record_replace(self, hash, data, depth) ==
    IF ~debug_assert_eq(crypt_hash(data), hash)
    THEN [self |-> self, panic |-> TRUE]
    ELSE IF depth >= self.min_depth
         THEN [self  |-> [self EXCEPT !.nodes = <<Record(depth, data, hash)>>],
               panic |-> FALSE]
         ELSE [self |-> self, panic |-> FALSE]

\* Recorder::record with the depth test ahead of the assertion.
record_filter_first(self, hash, data, depth) ==
    IF depth < self.min_depth
    THEN [self |-> self, panic |-> FALSE]
    ELSE IF ~debug_assert_eq(crypt_hash(data), hash)
         THEN [self |-> self, panic |-> TRUE]
         ELSE [self  |-> [self EXCEPT !.nodes = Append(@, Record(depth, data, hash))],
               panic |-> FALSE]

\* The caller's node buffer, as seen through a reference to it.
Borrowed == "node_buf"

\* Recorder::record keeping the borrowed slice instead of copying its bytes.
record_borrow(self, hash, data, depth) ==
    IF ~debug_assert_eq(crypt_hash(data), hash)
    THEN [self |-> self, panic |-> TRUE]
    ELSE IF depth >= self.min_depth
         THEN [self  |-> [self EXCEPT !.nodes = Append(@, Record(depth, Borrowed, hash))],
               panic |-> FALSE]
         ELSE [self |-> self, panic |-> FALSE]

\* Recorder::record.  Yields the recorder after the call and whether the
\* call panicked.
record(self, hash, data, depth) ==
    IF ~debug_assert_eq(crypt_hash(data), hash)
    THEN [self |-> self, panic |-> TRUE]
    ELSE IF depth >= self.min_depth
         THEN [self  |-> [self EXCEPT !.nodes = Append(@, Record(depth, data, hash))],
               panic |-> FALSE]
         ELSE [self |-> self, panic |-> FALSE]

\* Recorder::drain returning a copy of the buffer without detaching it.
drain_clone(self) ==
    [self |-> self, ret |-> self.nodes]

\* Recorder::drain handing back the fresh Vec instead of the old buffer.
drain_fresh(self) ==
    [self |-> self, ret |-> <<>>]

\* Recorder::drain replacing the whole recorder by a fresh one.
drain_reset(self) ==
    [self |-> new, ret |-> self.nodes]

\* Recorder::drain: mem::replace(&mut self.nodes, Vec::new()).
drain(self) ==
    [self |-> [self EXCEPT !.nodes = <<>>], ret |-> self.nodes]

(* ---------------------------- observations ----------------------------- *)

RecordEvent(hash, data, depth, panic) ==
    [op |-> "record", hash |-> hash, data |-> data, depth |-> depth, ok |-> ~panic]

DrainEvent(ret) == [op |-> "drain", ret |-> ret]

(* ------------------------------ actions -------------------------------- *)

\* A single owner constructs one Recorder (new(), default() or with_depth(m))
\* in a debug or a release build.
Init ==
    /\ debug_assertions \in BOOLEAN
    /\ \/ \E m \in Depths : recorder = with_depth(m)
       \/ recorder = new
       \/ recorder = default
    /\ other = new
    /\ panicked = FALSE
    /\ trace = <<>>
    /\ trace2 = <<>>
    /\ node_buf = <<>>
    /\ query = NoQuery

\* recorder.record(&hash, &data, depth)
RecordCall(hash, data, depth) ==
    /\ ~panicked
    /\ Len(trace) < MaxOps
    /\ LET r == record(recorder, hash, data, depth)
       IN /\ recorder' = r.self
          /\ panicked' = r.panic
          /\ trace' = Append(trace, RecordEvent(hash, data, depth, r.panic))
    /\ UNCHANGED <<other, debug_assertions, trace2, node_buf, query>>

\* recorder.drain()
DrainCall ==
    /\ ~panicked
    /\ Len(trace) < MaxOps
    /\ LET r == drain(recorder)
       IN /\ recorder' = r.self
          /\ trace' = Append(trace, DrainEvent(r.ret))
    /\ UNCHANGED <<other, debug_assertions, panicked, trace2, node_buf, query>>

Next ==
    \/ \E hash \in Hashes, data \in Nodes, depth \in Depths :
           RecordCall(hash, data, depth)
    \/ DrainCall

Spec == Init /\ [][Next]_vars

(* ---------------- two recorders driven side by side -------------------- *)

\* `recorder` is built by new() (or default()), `other` by with_depth(m).
InitPair ==
    /\ debug_assertions \in BOOLEAN
    /\ \/ recorder = new
       \/ recorder = default
    /\ \E m \in Depths : other = with_depth(m)
    /\ panicked = FALSE
    /\ trace = <<>>
    /\ trace2 = <<>>
    /\ node_buf = <<>>
    /\ query = NoQuery

\* The same record call on both recorders.
RecordBoth(hash, data, depth) ==
    /\ ~panicked
    /\ Len(trace) < MaxOps
    /\ LET r1 == record(recorder, hash, data, depth)
           r2 == record(other, hash, data, depth)
       IN /\ recorder' = r1.self
          /\ other' = r2.self
          /\ panicked' = (r1.panic \/ r2.panic)
          /\ trace' = Append(trace, RecordEvent(hash, data, depth, r1.panic))
          /\ trace2' = Append(trace2, RecordEvent(hash, data, depth, r2.panic))
    /\ UNCHANGED <<debug_assertions, node_buf, query>>

\* drain() on both recorders.
DrainBoth ==
    /\ ~panicked
    /\ Len(trace) < MaxOps
    /\ LET r1 == drain(recorder)
           r2 == drain(other)
       IN /\ recorder' = r1.self
          /\ other' = r2.self
          /\ trace' = Append(trace, DrainEvent(r1.ret))
          /\ trace2' = Append(trace2, DrainEvent(r2.ret))
    /\ UNCHANGED <<debug_assertions, panicked, node_buf, query>>

NextPair ==
    \/ \E hash \in Hashes, data \in Nodes, depth \in Depths :
           RecordBoth(hash, data, depth)
    \/ DrainBoth

SpecPair == InitPair /\ [][NextPair]_vars

(* ------------- a caller that reuses its node buffer -------------------- *)

\* The caller has built a Recorder and read a first node into its buffer.
InitBuf ==
    /\ debug_assertions \in BOOLEAN
    /\ \E m \in Depths : recorder = with_depth(m)
    /\ other = new
    /\ panicked = FALSE
    /\ trace = <<>>
    /\ trace2 = <<>>
    /\ node_buf \in Nodes
    /\ query = NoQuery

\* The caller overwrites its buffer with another node.
LoadNode(data) ==
    /\ ~panicked
    /\ data # node_buf
    /\ node_buf' = data
    /\ UNCHANGED <<recorder, other, debug_assertions, panicked, trace, trace2, query>>

\* recorder.record(&hash, &node_buf, depth) with hash = node_buf.crypt_hash(),
\* as the callers do.
RecordNode(depth) ==
    /\ ~panicked
    /\ Len(trace) < MaxOps
    /\ LET hash == crypt_hash(node_buf)
           r == record(recorder, hash, node_buf, depth)
       IN /\ recorder' = r.self
          /\ panicked' = r.panic
          /\ trace' = Append(trace, RecordEvent(hash, node_buf, depth, r.panic))
    /\ UNCHANGED <<other, debug_assertions, trace2, node_buf, query>>

NextBuf ==
    \/ \E data \in Nodes : LoadNode(data)
    \/ \E depth \in Depths : RecordNode(depth)
    \/ DrainCall

SpecBuf == InitBuf /\ [][NextBuf]_vars

(* ------------- two recorders, each with its own owner ------------------ *)

\* Two owners each build a Recorder of their own.
InitTwo ==
    /\ debug_assertions \in BOOLEAN
    /\ \E m \in Depths : recorder = with_depth(m)
    /\ \E m \in Depths : other = with_depth(m)
    /\ panicked = FALSE
    /\ trace = <<>>
    /\ trace2 = <<>>
    /\ node_buf = <<>>
    /\ query = NoQuery

\* recorder.record(&data.crypt_hash(), &data, depth) by the first owner.
RecordOnRecorder(data, depth) ==
    /\ ~panicked
    /\ Len(trace) + Len(trace2) < MaxOpsTwo
    /\ LET hash == crypt_hash(data)
           r == record(recorder, hash, data, depth)
       IN /\ recorder' = r.self
          /\ panicked' = r.panic
          /\ trace' = Append(trace, RecordEvent(hash, data, depth, r.panic))
    /\ UNCHANGED <<other, debug_assertions, trace2, node_buf, query>>

\* recorder.drain() by the first owner.
DrainRecorder ==
    /\ ~panicked
    /\ Len(trace) + Len(trace2) < MaxOpsTwo
    /\ LET r == drain(recorder)
       IN /\ recorder' = r.self
          /\ trace' = Append(trace, DrainEvent(r.ret))
    /\ UNCHANGED <<other, debug_assertions, panicked, trace2, node_buf, query>>

\* other.record(..) if the two instances shared one buffer.
RecordOnOtherShared(data, depth) ==
    /\ ~panicked
    /\ Len(trace) + Len(trace2) < MaxOpsTwo
    /\ LET hash == crypt_hash(data)
           r == record(other, hash, data, depth)
       IN /\ other' = r.self
          /\ recorder' = IF depth >= other.min_depth /\ ~r.panic
                         THEN [recorder EXCEPT !.nodes =
                                   Append(@, Record(depth, data, hash))]
                         ELSE recorder
          /\ panicked' = r.panic
          /\ trace2' = Append(trace2, RecordEvent(hash, data, depth, r.panic))
    /\ UNCHANGED <<debug_assertions, trace, node_buf, query>>

\* other.record(&data.crypt_hash(), &data, depth) by the second owner.
RecordOnOther(data, depth) ==
    /\ ~panicked
    /\ Len(trace) + Len(trace2) < MaxOpsTwo
    /\ LET hash == crypt_hash(data)
           r == record(other, hash, data, depth)
       IN /\ other' = r.self
          /\ panicked' = r.panic
          /\ trace2' = Append(trace2, RecordEvent(hash, data, depth, r.panic))
    /\ UNCHANGED <<recorder, debug_assertions, trace, node_buf, query>>

\* other.drain() by the second owner.
DrainOther ==
    /\ ~panicked
    /\ Len(trace) + Len(trace2) < MaxOpsTwo
    /\ LET r == drain(other)
       IN /\ other' = r.self
          /\ trace2' = Append(trace2, DrainEvent(r.ret))
    /\ UNCHANGED <<recorder, debug_assertions, panicked, trace, node_buf, query>>

NextTwo ==
    \/ \E data \in Nodes, depth \in Depths : RecordOnRecorder(data, depth)
    \/ DrainRecorder
    \/ \E data \in Nodes, depth \in Depths : RecordOnOther(data, depth)
    \/ DrainOther

SpecTwo == InitTwo /\ [][NextTwo]_vars

(* --------------- lookups in the trie of tests::trie_record ------------- *)

\* The keys inserted by the test: dog, lunch, notdog, hotdog, letter,
\* insert, pirate, "yo ho ho".
KeyDog == <<100, 111, 103>>
KeyLunch == <<108, 117, 110, 99, 104>>
KeyNotdog == <<110, 111, 116, 100, 111, 103>>
KeyHotdog == <<104, 111, 116, 100, 111, 103>>
KeyLetter == <<108, 101, 116, 116, 101, 114>>
KeyInsert == <<105, 110, 115, 101, 114, 116>>
KeyPirate == <<112, 105, 114, 97, 116, 101>>
KeyYoHoHo == <<121, 111, 32, 104, 111, 32, 104, 111>>

TrieKeys ==
    { KeyDog, KeyLunch, KeyNotdog, KeyHotdog, KeyLetter, KeyInsert, KeyPirate,
      KeyYoHoHo }

\* The encoded leaf of each key (rest of the key, then the value), as it is
\* embedded in the node encodings the test expects.
Leaf(key) ==
    CASE key = KeyDog    -> <<200, 131, 32, 111, 103, 131, 99, 97, 116>>
      [] key = KeyHotdog -> <<206, 134, 32, 111, 116, 100, 111, 103,
                              134, 104, 111, 116, 99, 97, 116>>
      [] key = KeyInsert -> <<206, 134, 32, 110, 115, 101, 114, 116,
                              134, 114, 101, 109, 111, 118, 101>>
      [] key = KeyNotdog -> <<206, 134, 32, 111, 116, 100, 111, 103,
                              134, 110, 111, 116, 99, 97, 116>>
      [] key = KeyPirate -> <<206, 134, 32, 105, 114, 97, 116, 101,
                              134, 97, 97, 114, 103, 104, 33>>
      [] key = KeyYoHoHo -> <<221, 136, 32, 111, 32, 104, 111, 32, 104, 111,
                              147, 97, 110, 100, 32, 97, 32, 98, 111, 116, 116,
                              108, 101, 32, 111, 102, 32, 114, 117, 109>>
      [] key = KeyLetter -> <<208, 133, 53, 116, 116, 101, 114,
                              137, 99, 111, 110, 102, 117, 115, 105, 111, 110>>
      [] key = KeyLunch  -> <<202, 132, 53, 110, 99, 104, 132, 116, 105, 109, 101>>

\* The nibbles of a key, high nibble first.
RECURSIVE Nibbles(_)
Nibbles(key) ==
    IF key = <<>> THEN <<>>
    ELSE <<Head(key) \div 16, Head(key) % 16>> \o Nibbles(Tail(key))

\* The four branch nodes of the trie after the test's inserts, each with
\* its 16 slots: empty, an embedded leaf, or a child stored under its hash.
EmptySlot == [kind |-> "empty"]
LeafSlot(key) == [kind |-> "leaf", key |-> key]
ChildSlot(id) == [kind |-> "child", node |-> id]

Slots(id) ==
    [i \in 0 .. 15 |->
        CASE id = "root" ->
               (CASE i = 6 -> ChildSlot("n6")
                  [] i = 7 -> ChildSlot("n7")
                  [] OTHER -> EmptySlot)
          [] id = "n6" ->
               (CASE i = 4  -> LeafSlot(KeyDog)
                  [] i = 8  -> LeafSlot(KeyHotdog)
                  [] i = 9  -> LeafSlot(KeyInsert)
                  [] i = 12 -> ChildSlot("n6c")
                  [] i = 14 -> LeafSlot(KeyNotdog)
                  [] OTHER  -> EmptySlot)
          [] id = "n7" ->
               (CASE i = 0 -> LeafSlot(KeyPirate)
                  [] i = 9 -> LeafSlot(KeyYoHoHo)
                  [] OTHER -> EmptySlot)
          [] id = "n6c" ->
               (CASE i = 6 -> LeafSlot(KeyLetter)
                  [] i = 7 -> LeafSlot(KeyLunch)
                  [] OTHER -> EmptySlot)]

TrieNodeIds == { "root", "n6", "n7", "n6c" }

\* RLP list header for a payload shorter than 256 bytes.
RlpList(payload) ==
    IF Len(payload) < 56
    THEN <<192 + Len(payload)>> \o payload
    ELSE <<248, Len(payload)>> \o payload

\* The encoding of a branch node: its 16 slots and an empty value.  An empty
\* slot is byte 128, a leaf is embedded, a child is referred to by the
\* digest of its encoding after byte 160 (one digest byte in this model).
RECURSIVE encode(_)
RECURSIVE EncodeSlots(_, _)
EncodeSlots(id, i) ==
    IF i > 15 THEN <<128>>
    ELSE LET slot == Slots(id)[i]
         IN (CASE slot.kind = "empty" -> <<128>>
               [] slot.kind = "leaf"  -> Leaf(slot.key)
               [] slot.kind = "child" -> <<160, crypt_hash(encode(slot.node))>>)
                \o EncodeSlots(id, i + 1)

encode(id) == RlpList(EncodeSlots(id, 0))

\* The root hash the trie is opened with (TrieDB::create(&db, &root)).
root == crypt_hash(encode("root"))

\* MemoryDB: the node encoding stored under a hash.
db(hash) == encode(CHOOSE id \in TrieNodeIds : crypt_hash(encode(id)) = hash)

\* The slots of the node stored under a hash.
decoded(hash) == Slots(CHOOSE id \in TrieNodeIds : crypt_hash(encode(id)) = hash)

GetWithEvent(key) == [op |-> "get_with", key |-> key]

Lookups(t) == Cardinality({ k \in 1 .. Len(t) : t[k].op = "get_with" })

\* let mut recorder = Recorder::new(), on the trie built by the test.
InitTrie ==
    /\ debug_assertions \in BOOLEAN
    /\ recorder = new
    /\ other = new
    /\ panicked = FALSE
    /\ trace = <<>>
    /\ trace2 = <<>>
    /\ node_buf = <<>>
    /\ query = NoQuery

\* trie.get_with(key, &mut recorder) begins at the root hash.
GetWith(key) ==
    /\ ~panicked
    /\ query = NoQuery
    /\ Lookups(trace) < MaxLookups
    /\ query' = [key |-> key, next |-> root, depth |-> 0, visiting |-> TRUE]
    /\ trace' = Append(trace, GetWithEvent(key))
    /\ UNCHANGED <<recorder, other, debug_assertions, panicked, trace2, node_buf>>

\* The lookup fetches the next node by its hash, hands hash, bytes and depth
\* to the recorder, and follows the slot of the key's next nibble.
VisitNode ==
    /\ ~panicked
    /\ query.visiting
    /\ LET hash == query.next
           data == db(hash)
           r    == record(recorder, hash, data, query.depth)
           slot == decoded(hash)[Nibbles(query.key)[query.depth + 1]]
       IN /\ node_buf' = data
          /\ recorder' = r.self
          /\ panicked' = r.panic
          /\ trace' = Append(trace, RecordEvent(hash, data, query.depth, r.panic))
          /\ query' = IF slot.kind = "child"
                      THEN [query EXCEPT !.next = crypt_hash(encode(slot.node)),
                                         !.depth = @ + 1]
                      ELSE [query EXCEPT !.visiting = FALSE]
    /\ UNCHANGED <<other, debug_assertions, trace2>>

\* recorder.drain() once the lookup has returned.
DrainAfterGet ==
    /\ ~panicked
    /\ query.key # <<>>
    /\ ~query.visiting
    /\ LET r == drain(recorder)
       IN /\ recorder' = r.self
          /\ trace' = Append(trace, DrainEvent(r.ret))
    /\ query' = NoQuery
    /\ UNCHANGED <<other, debug_assertions, panicked, trace2, node_buf>>

NextTrie ==
    \/ \E key \in TrieKeys : GetWith(key)
    \/ VisitNode
    \/ DrainAfterGet

SpecTrie == InitTrie /\ [][NextTrie]_vars

(* -------------------- reading the observed calls ----------------------- *)

IsDrain(t, k) == k \in 1 .. Len(t) /\ t[k].op = "drain"

IsRecord(t, k) == k \in 1 .. Len(t) /\ t[k].op = "record"

\* Position of the last drain before position k, 0 when there is none.
PrevDrain(t, k) ==
    LET ds == { j \in 1 .. (k - 1) : IsDrain(t, j) }
    IN IF ds = {} THEN 0 ELSE CHOOSE j \in ds : \A i \in ds : i <= j

\* The record calls made since the drain before position k.
Batch(t, k) == SubSeq(t, PrevDrain(t, k) + 1, k - 1)

\* What a list of record calls should leave behind under threshold m: the
\* calls with depth >= m, in call order, as Records of their arguments.
RECURSIVE Accepted(_, _)
Accepted(calls, m) ==
    IF calls = <<>> THEN <<>>
    ELSE LET c == Head(calls)
         IN (IF c.depth >= m THEN <<Record(c.depth, c.data, c.hash)>> ELSE <<>>)
                \o Accepted(Tail(calls), m)

\* This step is a record(hash, data, depth) call on `recorder` that returned.
RecordReturned(hash, data, depth) ==
    trace' = Append(trace, RecordEvent(hash, data, depth, FALSE))

(* ------------------------------ C1 ------------------------------------- *)

\* C1: every drain() returns exactly the record calls made since the buffer
\* was last empty whose depth >= min_depth, in call order, each Record with
\* the depth, hash and data of its call.
C1_DrainIsAcceptedSubsequence ==
    \A k \in 1 .. Len(trace) :
        IsDrain(trace, k) =>
            trace[k].ret = Accepted(Batch(trace, k), recorder.min_depth)

\* A drain that followed a rejected call and two different accepted calls.
C1_Witness ==
    \E k \in 1 .. Len(trace) :
        /\ IsDrain(trace, k)
        /\ Len(Batch(trace, k)) = 3
        /\ Len(trace[k].ret) = 2
        /\ trace[k].ret[1] # trace[k].ret[2]

(* ------------------------------ C2 ------------------------------------- *)

C3_SecondDrainEmpty ==
    \A k \in 1 .. Len(trace) :
        (IsDrain(trace, k) /\ IsDrain(trace, k + 1)) => trace[k + 1].ret = <<>>

\* Two drains in a row, the first of which returned records.
C3_Witness ==
    \E k \in 1 .. Len(trace) :
        /\ IsDrain(trace, k) /\ IsDrain(trace, k + 1)
        /\ trace[k].ret # <<>>
        /\ recorder.nodes = <<>>

(* ------------------------------ C4 ------------------------------------- *)

\* C4: for two successive drains of one recorder, the first returns only the
\* accepted records of the first batch, the second only those of the second
\* batch, and their concatenation is the accepted records of all calls of
\* both batches in call order.
C4_NoCrossContamination ==
    \A k \in 1 .. Len(trace) :
        (IsDrain(trace, k) /\ PrevDrain(trace, k) > 0) =>
            LET j  == PrevDrain(trace, k)
                b1 == Batch(trace, j)
                b2 == Batch(trace, k)
                m  == recorder.min_depth
            IN /\ trace[j].ret = Accepted(b1, m)
               /\ trace[k].ret = Accepted(b2, m)
               /\ trace[j].ret \o trace[k].ret = Accepted(b1 \o b2, m)

\* record, drain, record, drain, with a record returned by each drain.
C4_Witness ==
    /\ Len(trace) = 4
    /\ IsRecord(trace, 1) /\ IsDrain(trace, 2)
    /\ IsRecord(trace, 3) /\ IsDrain(trace, 4)
    /\ Len(trace[2].ret) = 1 /\ Len(trace[4].ret) = 1
    /\ trace[2].ret # trace[4].ret

(* ------------------------------ C5 ------------------------------------- *)

\* C5: a recorder built by with_depth(0) and one built by new(), given the
\* same record and drain calls, return equal results from every call and
\* hold equal state, and every drain returns as many records as record
\* calls were made since the previous drain, whatever their depths.
C5_WithDepthZeroIsNew ==
    other.min_depth = 0 =>
        /\ trace2 = trace
        /\ other = recorder
        /\ \A k \in 1 .. Len(trace) :
               IsDrain(trace, k) =>
                   /\ Len(trace[k].ret) = Len(Batch(trace, k))
                   /\ Len(trace2[k].ret) = Len(Batch(trace2, k))

\* with_depth(0) next to new(): a drain returned two records of different
\* depths from both.
C5_Witness ==
    /\ other.min_depth = 0
    /\ \E k \in 1 .. Len(trace) :
           /\ IsDrain(trace, k)
           /\ Len(trace[k].ret) = 2
           /\ trace[k].ret[1].depth # trace[k].ret[2].depth
           /\ trace2[k].ret = trace[k].ret

(* ------------------------------ C6 ------------------------------------- *)

\* C6: no record or drain call changes min_depth.
C6_MinDepthFixed ==
    [][recorder'.min_depth = recorder.min_depth]_vars

\* A threshold above 0 still rejects a shallow node after a drain that
\* returned a record.
C6_Witness ==
    /\ recorder.min_depth > 0
    /\ Len(trace) = 3
    /\ IsDrain(trace, 2) /\ trace[2].ret # <<>>
    /\ IsRecord(trace, 3) /\ trace[3].ok /\ trace[3].depth < recorder.min_depth
    /\ recorder.nodes = <<>>

(* ------------------------------ C7 ------------------------------------- *)

\* Every Record the recorder has handed out by drain, then those it holds.
RECURSIVE Drained(_)
Drained(t) ==
    IF t = <<>> THEN <<>>
    ELSE (IF Head(t).op = "drain" THEN Head(t).ret ELSE <<>>) \o Drained(Tail(t))

AllRecords == Drained(trace) \o recorder.nodes

Count(seq, x) == Cardinality({ i \in 1 .. Len(seq) : seq[i] = x })

\* How many record calls with exactly these arguments have returned.
Calls(hash, data, depth) ==
    Cardinality({ k \in 1 .. Len(trace) :
                    trace[k] = RecordEvent(hash, data, depth, FALSE) })

\* C7: no deduplication and no memory of earlier depths: for every record
\* call that returned, the recorder has produced exactly as many Records of
\* its argument triple as calls with that triple have returned when its
\* depth >= min_depth, and none when depth < min_depth; and it has produced
\* no Record that is not the triple of a returned call.
C7_NoDeduplication ==
    LET all == AllRecords
    IN /\ \A k \in 1 .. Len(trace) :
              (IsRecord(trace, k) /\ trace[k].ok) =>
                  LET c == trace[k]
                  IN Count(all, Record(c.depth, c.data, c.hash)) =
                         IF c.depth >= recorder.min_depth
                         THEN Calls(c.hash, c.data, c.depth)
                         ELSE 0
       /\ \A i \in 1 .. Len(all) :
              Calls(all[i].hash, all[i].data, all[i].depth) > 0

\* The buffer holds a deeper node followed by the same shallower node twice.
C7_Witness ==
    /\ Len(recorder.nodes) = 3
    /\ recorder.nodes[1].depth > recorder.nodes[2].depth
    /\ recorder.nodes[2] = recorder.nodes[3]

(* ------------------------------ C8 ------------------------------------- *)

\* C8 as stated: no record or drain call ever panics.
C8_NeverFails == ~panicked

\* C8 amended: drain never fails, and a record call panics exactly when the
\* build has debug assertions and the given hash is not the hash of the data.
C8_FailsOnlyOnDebugMismatch ==
    /\ \A k \in 1 .. Len(trace) :
           IsRecord(trace, k) =>
               (~trace[k].ok <=>
                    (debug_assertions /\ trace[k].hash # crypt_hash(trace[k].data)))
    /\ panicked <=> \E k \in 1 .. Len(trace) : IsRecord(trace, k) /\ ~trace[k].ok

\* A release build took a call with a wrong hash and then a drain, both
\* returning normally.
C8_Witness ==
    /\ ~debug_assertions
    /\ ~panicked
    /\ Len(trace) = 2
    /\ IsRecord(trace, 1) /\ trace[1].ok /\ trace[1].hash # crypt_hash(trace[1].data)
    /\ IsDrain(trace, 2)

(* ------------------------------ C9 ------------------------------------- *)

HashMatches(r) == r.hash = crypt_hash(r.data)

\* C9 as stated: every Record held or drained has hash = Hash(data).
C9_HashIntegrity ==
    \A i \in 1 .. Len(AllRecords) : HashMatches(AllRecords[i])

\* C9 amended: every Record held or drained has hash = Hash(data) in a build
\* with debug assertions, and in any build as long as every record call
\* made so far supplied hash = Hash(data).
C9_HashIntegrityWhenChecked ==
    (\/ debug_assertions
     \/ \A k \in 1 .. Len(trace) : IsRecord(trace, k) => HashMatches(trace[k]))
        => \A i \in 1 .. Len(AllRecords) : HashMatches(AllRecords[i])

\* A debug build has drained one record and holds another.
C9_Witness ==
    /\ debug_assertions
    /\ Drained(trace) # <<>>
    /\ recorder.nodes # <<>>

(* ------------------------------ C10 ------------------------------------ *)

\* C10: in a build without debug assertions, a record call with
\* hash # Hash(data) and depth >= min_depth appends a Record with exactly
\* the given depth, data and hash.
C10_MismatchRecordedAsGiven ==
    [][~debug_assertions =>
          \A hash \in Hashes, data \in Nodes, depth \in Depths :
              (/\ RecordReturned(hash, data, depth)
               /\ hash # crypt_hash(data)
               /\ depth >= recorder.min_depth)
                  => recorder'.nodes =
                         Append(recorder.nodes, Record(depth, data, hash))]_vars

\* A release build holds a Record whose hash is not the hash of its data.
C10_Witness ==
    /\ ~debug_assertions
    /\ \E i \in 1 .. Len(recorder.nodes) : ~HashMatches(recorder.nodes[i])

(* ------------------------------ C12 ------------------------------------ *)

\* C12: when the calls before a drain are two queries made one after the
\* other with no drain between them, wherever the first query ends, the
\* drain returns the accepted records of the first query followed by the
\* accepted records of the second.
C12_CarryOver ==
    \A k \in 1 .. Len(trace) :
        IsDrain(trace, k) =>
            LET b == Batch(trace, k)
            IN \A s \in 1 .. (Len(b) - 1) :
                   trace[k].ret =
                       Accepted(SubSeq(b, 1, s), recorder.min_depth)
                           \o Accepted(SubSeq(b, s + 1, Len(b)), recorder.min_depth)

\* Two queries, each starting at the root (depth 0), were recorded without
\* a drain between them, and the drain returned the nodes of both.
C12_Witness ==
    /\ Len(trace) = 4
    /\ IsRecord(trace, 1) /\ trace[1].depth = 0
    /\ IsRecord(trace, 2) /\ trace[2].depth > 0
    /\ IsRecord(trace, 3) /\ trace[3].depth = 0
    /\ IsDrain(trace, 4)
    /\ Len(trace[4].ret) = 3

(* ------------------------------ C15 ------------------------------------ *)

\* C15: every Record in the buffer has depth >= min_depth.
C15_BufferAboveThreshold ==
    \A i \in 1 .. Len(recorder.nodes) :
        recorder.nodes[i].depth >= recorder.min_depth

\* A threshold above 0, a node below it was offered and returned from, and
\* the buffer holds a node.
C15_Witness ==
    /\ recorder.min_depth > 0
    /\ recorder.nodes # <<>>
    /\ \E k \in 1 .. Len(trace) :
           IsRecord(trace, k) /\ trace[k].ok /\ trace[k].depth < recorder.min_depth

(* ------------------------------ C16 ------------------------------------ *)

\* This step is a record call on `recorder`, returning or panicking.
RecordStep ==
    \E hash \in Hashes, data \in Nodes, depth \in Depths, panic \in BOOLEAN :
        trace' = Append(trace, RecordEvent(hash, data, depth, panic))

\* C16: a record call keeps the buffer as a prefix of the new buffer; one
\* that returns grows it by exactly one Record when depth >= min_depth and
\* by none otherwise; a step that removes a Record is a drain, which returns
\* the whole buffer and leaves it empty.
C16_AppendOnly ==
    [][/\ RecordStep =>
              /\ Len(recorder'.nodes) >= Len(recorder.nodes)
              /\ SubSeq(recorder'.nodes, 1, Len(recorder.nodes)) = recorder.nodes
       /\ \A hash \in Hashes, data \in Nodes, depth \in Depths :
              RecordReturned(hash, data, depth) =>
                  Len(recorder'.nodes) =
                      Len(recorder.nodes)
                          + (IF depth >= recorder.min_depth THEN 1 ELSE 0)
       /\ (\E i \in 1 .. Len(recorder.nodes) :
               i > Len(recorder'.nodes) \/ recorder'.nodes[i] # recorder.nodes[i])
              => /\ trace' = Append(trace, DrainEvent(recorder.nodes))
                 /\ recorder'.nodes = <<>>]_vars

\* The buffer grew to two Records over three returned calls, one of them
\* rejected, and a drain then emptied it.
C16_Witness ==
    /\ Len(trace) = 4
    /\ \A k \in 1 .. 3 : IsRecord(trace, k) /\ trace[k].ok
    /\ IsDrain(trace, 4)
    /\ Len(trace[4].ret) = 2
    /\ recorder.nodes = <<>>

(* ------------------------------ C17 ------------------------------------ *)

\* C17: in a build with debug assertions, a record call whose hash is not
\* the hash of its data never returns normally, whatever its depth; it
\* panics and leaves the buffer and min_depth unchanged.
C17_AssertBeforeFilter ==
    [][debug_assertions =>
          \A hash \in Hashes, data \in Nodes, depth \in Depths :
              hash # crypt_hash(data) =>
                  /\ ~RecordReturned(hash, data, depth)
                  /\ trace' = Append(trace, RecordEvent(hash, data, depth, TRUE))
                         => (panicked' /\ recorder' = recorder)]_vars

\* A debug build holding a Record panicked on a call with a wrong hash and
\* a depth below the threshold; the buffer still holds that Record.
C17_Witness ==
    /\ debug_assertions
    /\ panicked
    /\ Len(trace) = 2
    /\ IsRecord(trace, 1) /\ trace[1].ok
    /\ IsRecord(trace, 2) /\ ~trace[2].ok
    /\ trace[2].hash # crypt_hash(trace[2].data)
    /\ trace[2].depth < recorder.min_depth
    /\ Len(recorder.nodes) = 1

(* ------------------------------ C11 ------------------------------------ *)

\* The bytes a reader of a Record's data gets now.
data_of(r) == IF r.data = Borrowed THEN node_buf ELSE r.data

\* The record calls on `recorder` so far.
RECURSIVE RecordCalls(_)
RecordCalls(t) ==
    IF t = <<>> THEN <<>>
    ELSE (IF Head(t).op = "record" THEN <<Head(t)>> ELSE <<>>) \o RecordCalls(Tail(t))

\* C11: whatever the caller has done to its node buffer since, the data of
\* every Record drained or held is the bytes that were in the buffer when
\* its record call was made.
C11_OwnsItsBytes ==
    LET all      == AllRecords
        supplied == Accepted(RecordCalls(trace), recorder.min_depth)
    IN /\ Len(all) = Len(supplied)
       /\ \A i \in 1 .. Len(all) : data_of(all[i]) = supplied[i].data

\* One Record was drained and one is held, the caller's buffer was
\* overwritten after each of the two calls, and it now holds other bytes
\* than the held Record.
C11_Witness ==
    /\ Len(trace) = 3
    /\ IsRecord(trace, 1) /\ IsDrain(trace, 2) /\ IsRecord(trace, 3)
    /\ Len(trace[2].ret) = 1
    /\ Len(recorder.nodes) = 1
    /\ trace[2].ret[1].data # recorder.nodes[1].data
    /\ recorder.nodes[1].data # node_buf

(* ------------------------------ C13 ------------------------------------ *)

\* The calls made on a recorder since its last drain.
SinceLastDrain(t) == Batch(t, Len(t) + 1)

\* What one recorder returned and holds is what its own calls alone yield.
OwnCallsOnly(t, self) ==
    /\ \A k \in 1 .. Len(t) :
           IsDrain(t, k) => t[k].ret = Accepted(Batch(t, k), self.min_depth)
    /\ self.nodes = Accepted(SinceLastDrain(t), self.min_depth)

\* C13: under every interleaving of calls on two recorders, every drain of
\* each returns, and each holds, exactly the accepted records of the calls
\* made on that instance, as if the other did not exist.
C13_InstancesIndependent ==
    /\ OwnCallsOnly(trace, recorder)
    /\ OwnCallsOnly(trace2, other)

\* The first recorder returned a Record from a drain while the second one
\* holds a different Record of its own.
C13_Witness ==
    /\ \E k \in 1 .. Len(trace) : IsDrain(trace, k) /\ Len(trace[k].ret) = 1
    /\ recorder.nodes = <<>>
    /\ Len(other.nodes) = 1
    /\ \E k \in 1 .. Len(trace) : IsDrain(trace, k) /\ trace[k].ret # other.nodes

(* ------------------------------ C14 ------------------------------------ *)

\* Position of the get_with call whose nodes the drain at k returned.
LookupOf(t, k) ==
    CHOOSE j \in 1 .. (k - 1) :
        /\ t[j].op = "get_with"
        /\ \A i \in (j + 1) .. (k - 1) : t[i].op # "get_with"

\* bytes occurs in data as a contiguous run.
Contains(data, bytes) ==
    \E p \in 0 .. (Len(data) - Len(bytes)) :
        SubSeq(data, p + 1, p + Len(bytes)) = bytes

\* The drained sequence is a proof for key under root: it starts with the
\* node whose digest is root, every later node's digest is referred to in
\* the node before it, and the last node holds the leaf of the key.
ProofFor(ret, key) ==
    /\ Len(ret) >= 1
    /\ ret[1].hash = root
    /\ \A i \in 1 .. Len(ret) : ret[i].hash = crypt_hash(ret[i].data)
    /\ \A i \in 1 .. (Len(ret) - 1) :
           Contains(ret[i].data, <<160, ret[i + 1].hash>>)
    /\ Contains(ret[Len(ret)].data, Leaf(key))

====
